---- MODULE Spec2Model ----
(***************************************************************************)
(* TypeTutor Racer: the race controller, typing evaluator and bot          *)
(* simulator of TypeTutorRacerPOC (src/unnamed/part_000, duplicated in     *)
(* src/src/SessionTracker.jsx lines 1272-1555).                            *)
(*                                                                         *)
(* Strings are sequences of one-character strings.  The clock counts whole *)
(* seconds, so ms() is 1000 * now.  A timestamp that is null in the code   *)
(* is NoTime.  One step of the model is one event handler or timer         *)
(* callback together with the render and the effects React runs after it;  *)
(* the bot ticker is the exception: its callbacks queue state updates and  *)
(* the render that follows may take up several of them at once.            *)
(*                                                                         *)
(* The session tracker (src/src/SessionTracker.jsx lines 19-150 and        *)
(* 464-563) keeps the current session, its two localStorage documents, the *)
(* inactivity timeout and the auto-persist interval.  Words per minute are *)
(* kept in tenths, as calcWPM rounds them.                                 *)
(***************************************************************************)
EXTENDS Integers, Sequences, FiniteSets, TLC

VARIABLES
    numBots,          \* useState(2), the "AI Opponents" slider
    profile,          \* useState("balanced")
    strict,           \* useState(true)
    selectedBuiltIn,  \* id of the selected built-in passage, "" for none
    customText,       \* useState("")
    state,            \* "idle" | "counting" | "running" | "finished"
    count,            \* remaining countdown
    currentWordIndex,
    currentTypedWord,
    wordResults,      \* sequence of [word, typed, correct, timestamp]
    startTime,
    endTime,
    bots,             \* sequence of [id, name, wpm, progress]
    cdNumBots,        \* numBots as captured by the countdown interval's closure
    cdProfile,        \* profile as captured by the countdown interval's closure
    pending,          \* bot-ticker callbacks run since the last render
    statsHistory,     \* localStorage[LS.STATS].history
    now,              \* the wall clock, in seconds
    currentSession,   \* useState of useSessionTracker
    sessionDoc,       \* localStorage[LS_SESSION.CURRENT]
    historyDoc,       \* localStorage[LS_SESSION.HISTORY]
    timerPending,     \* sessionTimeoutRef holds a timeout that has not fired
    timerSession,     \* currentSession as captured by that timeout's callback
    sinceArmed,       \* time since the timeout was set, in TimeoutTicks-ths of it
    raised,           \* a callback has thrown
    nextId            \* the next value of uid()

raceVars == << numBots, profile, strict, selectedBuiltIn, customText, state, count,
               currentWordIndex, currentTypedWord, wordResults, startTime, endTime,
               bots, cdNumBots, cdProfile, pending, statsHistory, now >>

sessionVars == << currentSession, sessionDoc, historyDoc, timerPending,
                  timerSession, sinceArmed, raised, nextId >>

vars == << raceVars, sessionVars >>

-----------------------------------------------------------------------------
(* Bounds of the model *)

MaxBots == 2        \* the slider offers 0..5
MaxTyped == 2       \* longest input value of one event
MaxTime == 3        \* the clock stops advancing here
MaxBatch == 2       \* ticker callbacks one render may take up
MaxRecorded == 1    \* races recorded before the start button is left alone
chunkLen == 4       \* characters of a passage that are raced; 600 in the code
MaxRaces == 2       \* races recorded in one session
MaxSessions == 4    \* sessions created
SessionCap == 2     \* summaries kept in the session history; 15 in the code
TimeoutTicks == 2   \* steps of the clock that make up the inactivity timeout

(* Program constants *)

countdown == 3
HistoryCap == 25
ProgScale == 1200   \* progress is kept in 1/1200 of a character:
                    \* (wpm*5/60) * dt * (jitterPercent/100) = wpm*dt*jitterPercent/1200

NoTime == 0

Chars == {"a", "b", " ", "\t"}
RaceWpms == {100, 101}       \* 10.0 and 10.1 words per minute
Jitters == {85, 115}         \* 0.85 + Math.random() * 0.3, in percent
BOT_NAMES == {"Ada"}
Profiles == {"chill", "balanced", "speedy"}

BuiltInIds == {"euclid"}
BuiltInText(id) ==
    CASE id = "euclid"   -> <<"a", " ", "b">>
      [] OTHER           -> <<>>

\* texts a file upload may deliver
UploadTexts == { <<"b", " ", " ", "a", "a", "b">>, <<" ">> }

\* texts of the passages the library holds
LibraryTexts == { <<"b", " ", "a", "a", "b">> }

\* input values that replace the whole field (paste, selection overwrite)
PasteValues == { <<"b", " ">>, <<"b", "a">> }

-----------------------------------------------------------------------------
(* Pure helpers *)

Min(a, b) == IF a <= b THEN a ELSE b
Max(a, b) == IF a >= b THEN a ELSE b

\* Math.round(n / d) for n >= 0, d > 0
RoundDiv(n, d) == (2 * n + d) \div (2 * d)

IsSpace(c) == c \in {" ", "\t"}

RECURSIVE TrimLeft(_)
TrimLeft(s) ==
    IF s = <<>> THEN <<>>
    ELSE IF IsSpace(Head(s)) THEN TrimLeft(Tail(s)) ELSE s

RECURSIVE TrimRight(_)
TrimRight(s) ==
    IF s = <<>> THEN <<>>
    ELSE IF IsSpace(s[Len(s)]) THEN TrimRight(SubSeq(s, 1, Len(s) - 1)) ELSE s

trim(s) == TrimRight(TrimLeft(s))

\* .replace(/\s+/g, ' ')
RECURSIVE CollapseWs(_)
CollapseWs(s) ==
    IF s = <<>> THEN <<>>
    ELSE IF IsSpace(Head(s)) THEN <<" ">> \o CollapseWs(TrimLeft(s))
    ELSE <<Head(s)>> \o CollapseWs(Tail(s))

\* cleanText(t) without options, on the model's alphabet
cleanText(t) == IF t = <<>> THEN <<>> ELSE CollapseWs(trim(CollapseWs(t)))

slice(s, n) == SubSeq(s, 1, Min(n, Len(s)))

\* length of the leading run of non-whitespace characters
RECURSIVE WordEnd(_)
WordEnd(s) ==
    IF s = <<>> \/ IsSpace(Head(s)) THEN 0 ELSE 1 + WordEnd(Tail(s))

\* text.split(/\s+/).filter(word => word.length > 0)
RECURSIVE SplitWords(_)
SplitWords(s) ==
    LET t == TrimLeft(s)
        k == WordEnd(t)
    IN IF t = <<>> THEN <<>>
       ELSE <<SubSeq(t, 1, k)>> \o SplitWords(SubSeq(t, k + 1, Len(t)))

calcWPM10(chars, elapsedMs) ==
    IF elapsedMs = 0 THEN 0 ELSE RoundDiv(chars * 12000 * 10, elapsedMs)

ms == 1000 * now

-----------------------------------------------------------------------------
(* The component's state as one render sees it, and the values derived from it *)

Cur == [ numBots |-> numBots, profile |-> profile, strict |-> strict,
         selectedBuiltIn |-> selectedBuiltIn, customText |-> customText,
         state |-> state, count |-> count,
         currentWordIndex |-> currentWordIndex,
         currentTypedWord |-> currentTypedWord,
         wordResults |-> wordResults,
         startTime |-> startTime, endTime |-> endTime, bots |-> bots ]

\* let t = customText ? cleanText(customText) : cleanText(built-in text)
Normalized(c) ==
    IF c.customText # <<>> THEN cleanText(c.customText)
    ELSE cleanText(BuiltInText(c.selectedBuiltIn))

\* const text = useMemo(...)
Text(c) ==
    IF Normalized(c) = <<>> THEN <<>> ELSE slice(Normalized(c), chunkLen)

Words(c) == SplitWords(Text(c))

\* words[i] for a 0-based i, undefined (here: absent) past the end
HasWord(c, i) == i + 1 \in 1..Len(Words(c))
WordAt(c, i) == IF HasWord(c, i) THEN Words(c)[i + 1] ELSE <<>>

RECURSIVE CountCorrect(_)
CountCorrect(wr) ==
    IF wr = <<>> THEN 0
    ELSE (IF Head(wr).correct THEN 1 ELSE 0) + CountCorrect(Tail(wr))

correctWords(c) == CountCorrect(c.wordResults)

RECURSIVE CompletedCorrectChars(_)
CompletedCorrectChars(wr) ==
    IF wr = <<>> THEN 0
    ELSE (IF Head(wr).correct THEN Len(Head(wr).word) + 1 ELSE 0)
         + CompletedCorrectChars(Tail(wr))

\* the for loop of correctChars: leading characters of typed that match word
RECURSIVE MatchingPrefix(_, _)
MatchingPrefix(typed, word) ==
    IF typed = <<>> \/ word = <<>> \/ Head(typed) # Head(word) THEN 0
    ELSE 1 + MatchingPrefix(Tail(typed), Tail(word))

correctChars(c) ==
    CompletedCorrectChars(c.wordResults)
    + MatchingPrefix(c.currentTypedWord, WordAt(c, c.currentWordIndex))

\* a variant that truncates instead of rounding
accuracyFloor(c) ==
    IF Len(c.wordResults) = 0 THEN 100
    ELSE (correctWords(c) * 100) \div Len(c.wordResults)

accuracy(c) ==
    IF Len(c.wordResults) = 0 THEN 100
    ELSE RoundDiv(correctWords(c) * 100, Len(c.wordResults))

\* wordResults.filter(result => !result.correct).length
RECURSIVE CountIncorrect(_)
CountIncorrect(wr) ==
    IF wr = <<>> THEN 0
    ELSE (IF Head(wr).correct THEN 0 ELSE 1) + CountIncorrect(Tail(wr))

\* a variant that drops the filter
errorsUnfiltered(c) == Len(c.wordResults)

errors(c) == CountIncorrect(c.wordResults)

\* progress of a bot that has reached the end of the passage
FullProgress(c) == Len(Text(c)) * ProgScale

BotDone(c, b) == b.progress >= FullProgress(c)

DoneBots(c) == { i \in 1..Len(c.bots) : BotDone(c, c.bots[i]) }

humanDone(c) == correctChars(c) >= Len(Text(c))
anyBotDone(c) == DoneBots(c) # {}

\* the racers handed to ProgressVisualization: the player, then the bots
racers(c) ==
    << [id |-> "player", name |-> "You", progress |-> correctChars(c) * ProgScale] >>
    \o [i \in 1..Len(c.bots) |->
          [id |-> c.bots[i].id, name |-> c.bots[i].name, progress |-> c.bots[i].progress]]

-----------------------------------------------------------------------------
(* recordResult, called from a render whose closure holds c *)

\* a variant that lets a finished bot outrank the human's own finish
placingCountsTies(c, humanFinished) == 1 + Cardinality(DoneBots(c))

placingOf(c, humanFinished) ==
    1 + (IF humanFinished THEN 0 ELSE Cardinality(DoneBots(c)))

recordEntry(c, humanFinished) ==
    [ wpm10     |-> calcWPM10(correctChars(c), ms - 1000 * c.startTime),
      accuracy  |-> accuracy(c),
      errors    |-> errors(c),
      length    |-> Len(Text(c)),
      placing   |-> placingOf(c, humanFinished),
      opponents |-> [i \in 1..Len(c.bots) |->
                       [name |-> c.bots[i].name, wpm |-> c.bots[i].wpm]] ]

recordResult(c, humanFinished, history) ==
    slice(<<recordEntry(c, humanFinished)>> \o history, HistoryCap)

-----------------------------------------------------------------------------
(* The render after a handler has left the state n and the storage h: the    *)
(* countdown effect captures the settings when the state becomes counting,   *)
(* the finish detection effect ends a running race.                          *)

\* a variant without the guard on the race state
FinishDetectionUnguarded(n) == humanDone(n) \/ anyBotDone(n)

FinishDetection(n) == n.state = "running" /\ (humanDone(n) \/ anyBotDone(n))

Commit(n, h) ==
    LET fin == FinishDetection(n)
        entering == n.state = "counting" /\ state # "counting"
    IN /\ numBots' = n.numBots
       /\ profile' = n.profile
       /\ strict' = n.strict
       /\ selectedBuiltIn' = n.selectedBuiltIn
       /\ customText' = n.customText
       /\ state' = IF fin THEN "finished" ELSE n.state
       /\ count' = IF entering THEN countdown ELSE n.count
       /\ currentWordIndex' = n.currentWordIndex
       /\ currentTypedWord' = n.currentTypedWord
       /\ wordResults' = n.wordResults
       /\ startTime' = n.startTime
       /\ endTime' = IF fin THEN now ELSE n.endTime
       /\ bots' = n.bots
       /\ cdNumBots' = IF entering THEN n.numBots
                       ELSE IF n.state = "counting" THEN cdNumBots ELSE 0
       /\ cdProfile' = IF entering THEN n.profile
                       ELSE IF n.state = "counting" THEN cdProfile ELSE ""
       /\ statsHistory' = IF fin THEN recordResult(n, humanDone(n), h) ELSE h
       /\ pending' = 0
       /\ now' = now
       /\ UNCHANGED sessionVars

-----------------------------------------------------------------------------
(* Session tracker: documents and pure functions *)

\* a race result as recordRace receives it, reduced to its wpm (in tenths)
RaceResults == { [wpm |-> w] : w \in RaceWpms }

createNewSession(id) ==
    [ sessionId |-> id, isActive |-> TRUE, totalRaces |-> 0,
      averageWPM |-> 0, peakWPM |-> 0, consistencyScore |-> 100,
      improvementRate |-> 0, races |-> <<>>, wpmHistory |-> <<>>,
      dirty |-> FALSE ]

\* what a storage key can hold: nothing, text that is not JSON, the JSON
\* null, an object without the expected fields, or a well-formed document
SessionDoc(kind, session) == [kind |-> kind, session |-> session]
NoSession == createNewSession(0)
AbsentSessionDoc == SessionDoc("absent", NoSession)

HistoryDoc(kind, sessions, totalSessions) ==
    [kind |-> kind, sessions |-> sessions, totalSessions |-> totalSessions]
AbsentHistoryDoc == HistoryDoc("absent", <<>>, 0)

\* JSON.parse(getItem(CURRENT) || "null") in a try; data && data.isActive ? data : null
\* (an absent result is HasCurrentSession = FALSE)
HasCurrentSession(doc) == doc.kind = "session" /\ doc.session.isActive
loadCurrentSession(doc) == doc.session

\* localStorage.setItem(CURRENT, JSON.stringify(session || null))
saveCurrentSession(session) == SessionDoc("session", session)
saveNoCurrentSession == SessionDoc("null", NoSession)

\* JSON.parse(getItem(HISTORY) || '{"sessions":[], "metadata":{}}') in a try:
\* the default for an absent key and for text that does not parse, otherwise
\* whatever was parsed
loadSessionHistory(doc) ==
    IF doc.kind \in {"absent", "invalid"} THEN HistoryDoc("history", <<>>, 0)
    ELSE doc

RECURSIVE SumWpm(_)
SumWpm(races) ==
    IF races = <<>> THEN 0 ELSE Head(races).wpm + SumWpm(Tail(races))

RECURSIVE SumSquares(_)
SumSquares(races) ==
    IF races = <<>> THEN 0
    ELSE Head(races).wpm * Head(races).wpm + SumSquares(Tail(races))

RECURSIVE MaxWpm(_)
MaxWpm(races) ==
    IF Len(races) = 1 THEN Head(races).wpm
    ELSE Max(Head(races).wpm, MaxWpm(Tail(races)))

\* Math.round(n / d) for d > 0 and any n: halves go up
RoundRatio(n, d) == (2 * n + d) \div (2 * d)

\* 40000 * d <= x * x for naturals d and x, computed with x = 200 * a + b so
\* that no product leaves 32 bits
WithinSquare(d, x) ==
    LET a == x \div 200
        b == x % 200
    IN IF d < a * a THEN TRUE
       ELSE IF d - a * a > 2 * a + 1 THEN FALSE
       ELSE 40000 * (d - a * a) <= 400 * a * b + b * b

\* Math.round(avgWPM > 0 ? Math.max(0, 100 - (stdDev / avgWPM) * 100) : 100).
\* With s the sum and q the sum of squares of n values, stdDev / avgWPM is
\* sqrt(n*q - s*s) / s, so the rounded score is the largest m in 0..100 with
\* 100 * sqrt(n*q - s*s) / s <= 100.5 - m, that is, with
\* 40000 * (n*q - s*s) <= ((201 - 2*m) * s)^2, and 0 if there is none.
consistency(races) ==
    LET n == Len(races)
        s == SumWpm(races)
        q == SumSquares(races)
        fits == { m \in 0..100 : WithinSquare(n * q - s * s, (201 - 2 * m) * s) }
    IN IF s <= 0 THEN 100
       ELSE IF fits = {} THEN 0
       ELSE CHOOSE m \in fits : \A k \in fits : k <= m

\* a variant whose average is not rounded to a tenth but cut off
calculateSessionStatsTruncating(session) ==
    IF Len(session.races) = 0 THEN session
    ELSE LET races == session.races
         IN [session EXCEPT
               !.totalRaces = Len(races),
               !.averageWPM = SumWpm(races) \div Len(races),
               !.peakWPM = MaxWpm(races),
               !.consistencyScore = consistency(races),
               !.improvementRate =
                   IF Len(races) > 1
                   THEN RoundRatio(races[Len(races)].wpm - races[1].wpm, Len(races))
                   ELSE 0,
               !.wpmHistory = [i \in 1..Len(races) |-> [race |-> i, wpm |-> races[i].wpm]]]

calculateSessionStats(session) ==
    IF Len(session.races) = 0 THEN session
    ELSE LET races == session.races
         IN [session EXCEPT
               !.totalRaces = Len(races),
               !.averageWPM = RoundRatio(SumWpm(races), Len(races)),
               !.peakWPM = MaxWpm(races),
               !.consistencyScore = consistency(races),
               !.improvementRate =
                   IF Len(races) > 1
                   THEN RoundRatio(races[Len(races)].wpm - races[1].wpm, Len(races))
                   ELSE 0,
               !.wpmHistory = [i \in 1..Len(races) |-> [race |-> i, wpm |-> races[i].wpm]]]

\* the summary endSession appends, without its texts
sessionSummary(endedSession) ==
    [ id |-> endedSession.sessionId,
      totalRaces |-> endedSession.totalRaces,
      avgWPM |-> endedSession.averageWPM,
      peakWPM |-> endedSession.peakWPM,
      improvement |-> endedSession.improvementRate,
      consistency |-> endedSession.consistencyScore ]

\* history.sessions and history.metadata.totalSessions throw a TypeError
\* when the parsed document is null or lacks the fields
endSessionRaises(doc) == loadSessionHistory(doc).kind # "history"

\* a variant that appends the summary at the end
endSessionAppending(session, doc) ==
    LET endedSession == calculateSessionStats([session EXCEPT !.isActive = FALSE])
        history == loadSessionHistory(doc)
    IN HistoryDoc("history",
                  slice(history.sessions \o <<sessionSummary(endedSession)>>, SessionCap),
                  history.totalSessions + 1)

\* the history document endSession writes
endSession(session, doc) ==
    LET endedSession == calculateSessionStats([session EXCEPT !.isActive = FALSE])
        history == loadSessionHistory(doc)
    IN HistoryDoc("history",
                  slice(<<sessionSummary(endedSession)>> \o history.sessions, SessionCap),
                  history.totalSessions + 1)

-----------------------------------------------------------------------------
(* Controls *)

InitRace ==
    /\ numBots = 2
    /\ profile = "balanced"
    /\ strict = TRUE
    /\ selectedBuiltIn = "euclid"
    /\ customText = <<>>
    /\ state = "idle"
    /\ count = countdown
    /\ currentWordIndex = 0
    /\ currentTypedWord = <<>>
    /\ wordResults = <<>>
    /\ startTime = NoTime
    /\ endTime = NoTime
    /\ bots = <<>>
    /\ cdNumBots = 0
    /\ cdProfile = ""
    /\ pending = 0
    /\ statsHistory = <<>>
    /\ now = 1

Init ==
    /\ InitRace
    /\ currentSession = createNewSession(1)
    /\ sessionDoc = AbsentSessionDoc
    /\ historyDoc = AbsentHistoryDoc
    /\ timerPending = FALSE
    /\ timerSession = NoSession
    /\ sinceArmed = 0
    /\ raised = FALSE
    /\ nextId = 2

\* a variant with the start button always enabled
startAlways(c) == TRUE

\* the start button is disabled while there is no text
startEnabled(c) == Text(c) # <<>>

\* a variant that leaves the timestamps of the previous race
startRaceKeepsTimes ==
    /\ pending = 0
    /\ startEnabled(Cur)
    /\ Len(statsHistory) < MaxRecorded
    /\ Commit([Cur EXCEPT !.currentWordIndex = 0,
                          !.currentTypedWord = <<>>,
                          !.wordResults = <<>>,
                          !.state = "counting",
                          !.count = countdown], statsHistory)

\* races are started until MaxRecorded of them have been recorded
startRace ==
    /\ pending = 0
    /\ startEnabled(Cur)
    /\ Len(statsHistory) < MaxRecorded
    /\ Commit([Cur EXCEPT !.currentWordIndex = 0,
                          !.currentTypedWord = <<>>,
                          !.wordResults = <<>>,
                          !.startTime = NoTime,
                          !.endTime = NoTime,
                          !.state = "counting",
                          !.count = countdown], statsHistory)

\* a variant that keeps the bots, as the start command does
resetRaceKeepsBots ==
    /\ pending = 0
    /\ Commit([Cur EXCEPT !.currentWordIndex = 0,
                          !.currentTypedWord = <<>>,
                          !.wordResults = <<>>,
                          !.startTime = NoTime,
                          !.endTime = NoTime,
                          !.state = "idle"], statsHistory)

resetRace ==
    /\ pending = 0
    /\ Commit([Cur EXCEPT !.currentWordIndex = 0,
                          !.currentTypedWord = <<>>,
                          !.wordResults = <<>>,
                          !.startTime = NoTime,
                          !.endTime = NoTime,
                          !.bots = <<>>,
                          !.state = "idle"], statsHistory)

\* numBots and profile are read only when a countdown begins: the model
\* changes them between races
SetNumBots ==
    /\ pending = 0
    /\ Len(statsHistory) < MaxRecorded
    /\ state = "idle"
    /\ \E n \in 0..MaxBots : n # numBots /\ Commit([Cur EXCEPT !.numBots = n], statsHistory)

SetProfile ==
    /\ pending = 0
    /\ Len(statsHistory) < MaxRecorded
    /\ state = "idle"
    /\ \E p \in Profiles : p # profile /\ Commit([Cur EXCEPT !.profile = p], statsHistory)

\* strict is read only by the input handler
SetStrict ==
    /\ pending = 0
    /\ Len(statsHistory) < MaxRecorded \/ state = "running"
    /\ Commit([Cur EXCEPT !.strict = ~strict], statsHistory)

\* the passage select, on a built-in passage
SelectBuiltIn ==
    /\ pending = 0
    /\ \E id \in BuiltInIds :
         /\ id # selectedBuiltIn \/ customText # <<>>
         /\ Commit([Cur EXCEPT !.selectedBuiltIn = id, !.customText = <<>>], statsHistory)

\* the passage select, on a passage of the library
SelectLibrary ==
    /\ pending = 0
    /\ \E t \in LibraryTexts :
         /\ t # customText \/ selectedBuiltIn # ""
         /\ Commit([Cur EXCEPT !.customText = t, !.selectedBuiltIn = ""], statsHistory)

onUpload ==
    /\ pending = 0
    /\ \E t \in UploadTexts :
         /\ cleanText(t) # customText
         /\ Commit([Cur EXCEPT !.customText = cleanText(t)], statsHistory)

-----------------------------------------------------------------------------
(* Countdown *)

ProfileRange(p) ==
    CASE p = "chill"    -> <<35, 45>>
      [] p = "balanced" -> <<55, 70>>
      [] p = "speedy"   -> <<85, 110>>
      [] OTHER          -> <<50, 70>>

\* Math.round(min + Math.random() * (max - min)): the two ends of the range
WpmChoices(p) == { ProfileRange(p)[1], ProfileRange(p)[2] }

\* uid() is taken to give each bot of a race an id of its own
makeBot(i, p) ==
    { [id |-> i, name |-> nm, wpm |-> w, progress |-> 0] :
        nm \in BOT_NAMES, w \in WpmChoices(p) }

setupBots(n, p) ==
    { bs \in [1..n -> UNION { makeBot(i, p) : i \in 1..n }] :
        \A i \in 1..n : bs[i].id = i }

\* a variant whose interval is never cleared
countdownAlways(c) == TRUE

\* the countdown interval lives while the state is counting
countdownLive(c) == c.state = "counting"

CountdownTick ==
    /\ pending = 0
    /\ countdownLive(Cur)
    /\ IF count <= 1
       THEN \E bs \in setupBots(cdNumBots, cdProfile) :
              Commit([Cur EXCEPT !.bots = bs, !.startTime = now,
                                 !.state = "running", !.count = count - 1],
                     statsHistory)
       ELSE Commit([Cur EXCEPT !.count = count - 1], statsHistory)

-----------------------------------------------------------------------------
(* Bot simulation *)

\* a variant without the clamp to the passage length
advanceUnclamped(b, len, dt, jitter) ==
    IF b.progress >= len * ProgScale THEN b
    ELSE [b EXCEPT !.progress = b.progress + b.wpm * dt * jitter]

\* a variant whose bots never move
advanceStalled(b, len, dt, jitter) == b

advance(b, len, dt, jitter) ==
    IF b.progress >= len * ProgScale THEN b
    ELSE [b EXCEPT !.progress = Min(len * ProgScale, b.progress + b.wpm * dt * jitter)]

\* a variant whose interval is never cleared
tickerAlways(c) == TRUE

\* the bot interval lives while the state is running
tickerLive(c) == c.state = "running"

BotTick ==
    /\ tickerLive(Cur)
    /\ pending < MaxBatch
    /\ \E dt \in 0..1 :
         /\ now + dt <= MaxTime
         /\ now' = now + dt
         /\ \E j \in [1..Len(bots) -> Jitters] :
              bots' = [i \in 1..Len(bots) |-> advance(bots[i], Len(Text(Cur)), dt, j[i])]
    /\ pending' = pending + 1
    /\ UNCHANGED << numBots, profile, strict, selectedBuiltIn, customText, state,
                    count, currentWordIndex, currentTypedWord, wordResults,
                    startTime, endTime, cdNumBots, cdProfile, statsHistory >>
    /\ UNCHANGED sessionVars

Render ==
    /\ pending > 0
    /\ Commit(Cur, statsHistory)

-----------------------------------------------------------------------------
(* Input handler *)

endsWithSeparator(value) == value # <<>> /\ IsSpace(value[Len(value)])

dropLast(value) == SubSeq(value, 1, Len(value) - 1)

\* a variant that checks only characters inside the target word
strictRejectsInsideWord(c, value) ==
    /\ c.strict
    /\ Len(value) > 0
    /\ LET currentWord == WordAt(c, c.currentWordIndex)
       IN /\ Len(value) <= Len(currentWord)
          /\ value[Len(value)] # currentWord[Len(value)]

\* a variant that compares the word without trimming it
typedWordUntrimmed(value) == dropLast(value)

\* value.slice(0, -1).trim()
typedWordOf(value) == trim(dropLast(value))

\* strict mode: the last character against the target word's at that place
strictRejects(c, value) ==
    /\ c.strict
    /\ Len(value) > 0
    /\ LET currentWord == WordAt(c, c.currentWordIndex)
       IN \/ Len(value) > Len(currentWord)
          \/ value[Len(value)] # currentWord[Len(value)]

\* the state the handler leaves, before the render
typed(c, value) ==
    LET c1 == IF c.startTime = NoTime /\ c.state = "running"
              THEN [c EXCEPT !.startTime = now] ELSE c
    IN IF endsWithSeparator(value)
       THEN IF HasWord(c, c.currentWordIndex)
            THEN LET targetWord == WordAt(c, c.currentWordIndex)
                     typedWord == typedWordOf(value)
                     result == [word |-> targetWord, typed |-> typedWord,
                                correct |-> (typedWord = targetWord),
                                timestamp |-> now]
                     last == c.currentWordIndex + 1 >= Len(Words(c))
                 IN [c1 EXCEPT !.wordResults = Append(c.wordResults, result),
                               !.currentWordIndex = c.currentWordIndex + 1,
                               !.currentTypedWord = <<>>,
                               !.endTime = IF last THEN now ELSE c1.endTime,
                               !.state = IF last THEN "finished" ELSE c1.state]
            ELSE c1
       ELSE IF strictRejects(c, value)
            THEN [c1 EXCEPT !.currentTypedWord = dropLast(value)]
            ELSE [c1 EXCEPT !.currentTypedWord = value]

\* the last word's commit calls recordResult(true) from the handler's closure
commitsLastWord(c, value) ==
    /\ endsWithSeparator(value)
    /\ HasWord(c, c.currentWordIndex)
    /\ c.currentWordIndex + 1 >= Len(Words(c))

\* what an input event can deliver: a character more, a character less, or a
\* replacement of the whole value
InputValues(buffer) ==
    { buffer \o <<ch>> : ch \in Chars }
    \cup (IF buffer = <<>> THEN {} ELSE { dropLast(buffer) })
    \cup PasteValues

\* the input is disabled unless the race is running
onType ==
    /\ pending = 0
    /\ state = "running"
    /\ \E value \in InputValues(currentTypedWord) :
         /\ Len(value) <= MaxTyped
         /\ Commit(typed(Cur, value),
                   IF commitsLastWord(Cur, value)
                   THEN recordResult(Cur, TRUE, statsHistory)
                   ELSE statsHistory)

-----------------------------------------------------------------------------

Next ==
    \/ startRace
    \/ resetRace
    \/ SetNumBots
    \/ SetProfile
    \/ SetStrict
    \/ SelectBuiltIn
    \/ SelectLibrary
    \/ onUpload
    \/ CountdownTick
    \/ BotTick
    \/ Render
    \/ onType

Spec == Init /\ [][Next]_vars

-----------------------------------------------------------------------------
(* The race with its settings moved at any time: neither the slider nor the  *)
(* difficulty select is disabled during a race.  The passage and strict mode *)
(* stay as they are at the start.                                            *)

ChangeNumBots ==
    /\ pending = 0
    /\ Len(statsHistory) < MaxRecorded
    /\ \E n \in 0..MaxBots : n # numBots /\ Commit([Cur EXCEPT !.numBots = n], statsHistory)

ChangeProfile ==
    /\ pending = 0
    /\ Len(statsHistory) < MaxRecorded
    /\ \E p \in Profiles : p # profile /\ Commit([Cur EXCEPT !.profile = p], statsHistory)

NextSettings ==
    \/ startRace
    \/ resetRace
    \/ ChangeNumBots
    \/ ChangeProfile
    \/ CountdownTick
    \/ BotTick
    \/ Render
    \/ onType

SpecSettings == Init /\ [][NextSettings]_vars

-----------------------------------------------------------------------------
(* Properties *)

TargetWord == WordAt(Cur, currentWordIndex)

\* every input value of at most n characters
ValuesUpTo(n) == UNION { [1..k -> Chars] : k \in 0..n }

\* the input accepts events: the race is running and rendered
InputOpen == state = "running" /\ pending = 0

\* one WordResult per passage word, and the word index past the last word
HumanCommittedAll(c) ==
    /\ Len(c.wordResults) = Len(Words(c))
    /\ c.currentWordIndex = Len(Words(c))

\* C1: a race goes from running to finished only when the human has committed
\* the final word of the passage or some bot's progress has reached the
\* passage length.
C1_FinishOnlyByCommitOrBot ==
    [][ (state = "running" /\ state' = "finished")
          => \A n \in {Cur'} : HumanCommittedAll(n) \/ anyBotDone(n) ]_vars

\* the human has typed every word of the passage exactly, the words before the
\* last committed and the last one typed out
TypedEveryWordExactly ==
    LET w == Words(Cur)
        n == Len(w)
    IN /\ n > 0
       /\ Len(wordResults) <= n
       /\ \A i \in 1..Len(wordResults) :
            wordResults[i].word = w[i] /\ wordResults[i].typed = w[i]
       /\ \/ Len(wordResults) = n
          \/ Len(wordResults) = n - 1 /\ currentTypedWord = w[n]

\* C2: when the human types every word exactly and no bot reaches the passage
\* length first, the finished race has one WordResult per word, all correct,
\* and placing 1.
C2_ExactTypingFinishes ==
    (state = "finished" /\ TypedEveryWordExactly /\ ~anyBotDone(Cur))
      => /\ Len(wordResults) = Len(Words(Cur))
         /\ \A i \in 1..Len(wordResults) : wordResults[i].correct
         /\ statsHistory # <<>>
         /\ statsHistory[1].placing = 1

\* C3: the record of a finished race holds the accuracy and the error count
\* of all its WordResults, the final committed word included.
C3_RecordMatchesMetrics ==
    (state = "finished" /\ statsHistory # <<>>)
      => /\ statsHistory[1].accuracy = accuracy(Cur)
         /\ statsHistory[1].errors = errors(Cur)

\* C4: every racer handed to the presentation layer, the human and each bot,
\* has a progress between 0 and the passage length.
C4_ProgressInRange ==
    \A i \in 1..Len(racers(Cur)) :
       /\ racers(Cur)[i].progress >= 0
       /\ racers(Cur)[i].progress <= FullProgress(Cur)

\* C5: a bot-ticker step of a running race leaves every bot's progress at or
\* above what it was and at or below the passage length, and leaves a bot that
\* is already at the passage length unchanged.
C5_BotStepMonotoneBounded ==
    [][ (state = "running" /\ pending' = pending + 1)
          => /\ Len(bots') = Len(bots)
             /\ \A i \in 1..Len(bots) :
                  /\ bots'[i].progress >= bots[i].progress
                  /\ bots'[i].progress <= FullProgress(Cur)
                  /\ bots[i].progress >= FullProgress(Cur) => bots'[i] = bots[i] ]_vars

\* a running race after two ticker callbacks, with one bot at the passage
\* length and another under way
C5_Witness ==
    /\ state = "running"
    /\ pending >= 2
    /\ \E i \in 1..Len(bots) : bots[i].progress = FullProgress(Cur)
    /\ \E j \in 1..Len(bots) : bots[j].progress > 0 /\ bots[j].progress < FullProgress(Cur)

\* C6: a step in which a race becomes finished prepends exactly one record to
\* the stored history, whichever finish path fires, and every other step
\* leaves the stored history, and so every record written, as it was.  (The
\* render that ends a countdown on an emptied passage and the finish detection
\* after it are one step.)
C6_OneRecordPerFinish ==
    [][ IF state # "finished" /\ state' = "finished"
        THEN /\ Len(statsHistory') = Len(statsHistory) + 1
             /\ Tail(statsHistory') = statsHistory
        ELSE statsHistory' = statsHistory ]_vars

\* a race finished by the input handler's final-word commit, with its record
C6_Witness ==
    /\ state = "finished"
    /\ HumanCommittedAll(Cur)
    /\ ~anyBotDone(Cur)
    /\ Len(statsHistory) = 1

\* C7: the recorded placing is 1 when the human's completion ends the race,
\* also when a bot is at full progress at that moment, and otherwise 1 + the
\* number of bots at or beyond the passage length when the race finishes.
C7_Placing ==
    [][ (state # "finished" /\ state' = "finished")
          => \A n \in {Cur'} :
               /\ statsHistory' # <<>>
               /\ statsHistory'[1].placing =
                    IF Len(n.wordResults) > Len(wordResults) \/ humanDone(n)
                    THEN 1
                    ELSE 1 + Cardinality(DoneBots(n)) ]_vars

\* a race that two bots finished before the human
C7_Witness ==
    /\ state = "finished"
    /\ statsHistory # <<>>
    /\ statsHistory[1].placing = 3

\* C8: as long as every committed word was typed exactly as the passage word,
\* the error count is 0 and the accuracy is 100.
C8_ExactWordsNoErrors ==
    (\A i \in 1..Len(wordResults) : wordResults[i].typed = wordResults[i].word)
      => errors(Cur) = 0 /\ accuracy(Cur) = 100

\* every word of a two-word passage committed exactly
C8_Witness ==
    /\ Len(wordResults) = 2
    /\ \A i \in 1..Len(wordResults) : wordResults[i].typed = wordResults[i].word

\* the character ch, typed at the end of the buffer, is not the target word's
\* character at that place
Mismatches(ch) ==
    LET pos == Len(currentTypedWord) + 1
    IN pos > Len(TargetWord) \/ ch # TargetWord[pos]

\* the handler leaves the buffer, the results and the word index as they were
RejectedBy(value) ==
    LET r == typed(Cur, value)
    IN /\ r.currentTypedWord = currentTypedWord
       /\ r.wordResults = wordResults
       /\ r.currentWordIndex = currentWordIndex

\* C9 as stated: in strict mode every newly typed last character that differs
\* from the target word's character at its place, or lies beyond the word, is
\* rejected.
C9_AnyMismatchRejected ==
    (InputOpen /\ strict)
      => \A ch \in Chars :
            Mismatches(ch) => RejectedBy(currentTypedWord \o <<ch>>)

\* C9, amended: in strict mode a newly typed last character other than a space
\* or tab that differs from the target word's character at its place, or lies
\* beyond the word, is rejected: buffer, results and word index stay.
C9_StrictRejectsMismatch ==
    (InputOpen /\ strict)
      => \A ch \in Chars :
            (~IsSpace(ch) /\ Mismatches(ch))
               => RejectedBy(currentTypedWord \o <<ch>>)

\* strict mode with a typed prefix in the buffer and a wrong next character
C9_Witness ==
    /\ InputOpen
    /\ strict
    /\ currentTypedWord # <<>>
    /\ \E ch \in Chars :
         ~IsSpace(ch) /\ Mismatches(ch) /\ RejectedBy(currentTypedWord \o <<ch>>)

\* C10: an input ending in a space or tab, while a target word exists, emits
\* exactly one WordResult, correct iff the trimmed value is the target word,
\* moves the word index on by one and empties the buffer; a whitespace-only
\* segment is scored incorrect, strict mode or not.
C10_SeparatorCommits ==
    (InputOpen /\ HasWord(Cur, currentWordIndex))
      => \A value \in ValuesUpTo(MaxTyped + 1) :
            endsWithSeparator(value)
              => LET r == typed(Cur, value)
                     k == Len(wordResults)
                 IN /\ Len(r.wordResults) = k + 1
                    /\ SubSeq(r.wordResults, 1, k) = wordResults
                    /\ r.wordResults[k + 1].word = TargetWord
                    /\ r.wordResults[k + 1].correct
                         <=> (trim(dropLast(value)) = TargetWord)
                    /\ trim(dropLast(value)) = <<>> => ~r.wordResults[k + 1].correct
                    /\ r.currentWordIndex = currentWordIndex + 1
                    /\ r.currentTypedWord = <<>>

\* a whitespace-only segment committed in strict mode
C10_Witness ==
    /\ strict
    /\ \E i \in 1..Len(wordResults) :
         wordResults[i].typed = <<>> /\ ~wordResults[i].correct

\* C11: in every state wordResults has one entry per word passed, and its
\* i-th entry was made for the i-th word of the passage.
C11_ResultsFollowPassage ==
    /\ Len(wordResults) = currentWordIndex
    /\ \A i \in 1..Len(wordResults) :
         /\ i <= Len(Words(Cur))
         /\ wordResults[i].word = Words(Cur)[i]

\* what the start command is to leave behind
StartedClean(n) ==
    /\ n.state = "counting"
    /\ n.count = countdown
    /\ n.currentWordIndex = 0
    /\ n.currentTypedWord = <<>>
    /\ n.wordResults = <<>>
    /\ n.startTime = NoTime
    /\ n.endTime = NoTime
    /\ n.bots = <<>>

\* C12: the start command leaves the race counting with the full countdown,
\* word index 0, empty buffer, no WordResult, no timestamps and no bots.
C12_StartResetsRace ==
    [][ startRace => \A n \in {Cur'} : StartedClean(n) ]_vars

\* C18: a step taken while the race is counting or running leaves the
\* passage's word sequence and length as they were.
C18_PassageImmutable ==
    [][ (state = "counting" \/ state = "running")
          => \A n \in {Cur'} :
               (Words(n) = Words(Cur) /\ Len(Text(n)) = Len(Text(Cur))) ]_vars

\* C19: every word of the passage is the word of the normalized text at its
\* place: truncation to the chunk length splits no word.
C19_NoPartialWord ==
    \A i \in 1..Len(Words(Cur)) :
       /\ i <= Len(SplitWords(Normalized(Cur)))
       /\ Words(Cur)[i] = SplitWords(Normalized(Cur))[i]

\* what the reset command is to leave behind
ResetClean(n) ==
    /\ n.state = "idle"
    /\ n.currentWordIndex = 0
    /\ n.currentTypedWord = <<>>
    /\ n.wordResults = <<>>
    /\ n.startTime = NoTime
    /\ n.endTime = NoTime
    /\ n.bots = <<>>

\* C14: the reset command, in whatever state, leaves the race idle with word
\* index, buffer, wordResults, timestamps and bots cleared, and leaves the
\* stored history as it was.
C14_ResetClears ==
    [][ resetRace
          => (statsHistory' = statsHistory /\ \A n \in {Cur'} : ResetClean(n)) ]_vars

\* a finished and recorded race that was reset
C14_Witness ==
    /\ statsHistory # <<>>
    /\ ResetClean(Cur)

\* C15: a step of a finished race other than the start and the reset command
\* leaves it finished, with its wordResults, word index, bots and end
\* timestamp as they were.
C15_FinishedIsTerminal ==
    [][ (state = "finished" /\ ~startRace /\ ~resetRace)
          => (state' = "finished"
              /\ UNCHANGED << wordResults, currentWordIndex, bots, endTime >>) ]_vars

\* a finished race with results and bots whose passage was changed afterwards
C15_Witness ==
    /\ state = "finished"
    /\ wordResults # <<>>
    /\ bots # <<>>
    /\ statsHistory # <<>>
    /\ statsHistory[1].length # Len(Text(Cur))

\* some bot's progress grows in the step
BotsAdvance ==
    /\ Len(bots') = Len(bots)
    /\ \E i \in 1..Len(bots) : bots'[i].progress > bots[i].progress

\* the step counts down, or takes the race into running
CountdownActs ==
    \/ count' = count - 1
    \/ state # "running" /\ state' = "running"

FreshBots(n) ==
    /\ Len(n.bots) = n.numBots
    /\ \A i \in 1..Len(n.bots) : n.bots[i].progress = 0

\* C13: a countdown tick takes the count down by one, not below zero; the tick
\* that brings it to zero instantiates numBots bots with progress 0, records
\* the start timestamp and makes the race run (an empty passage ends it in the
\* same step); the race enters running in no other step.
C13_CountdownStartsRace ==
    [][ /\ CountdownTick
          => \A n \in {Cur'} :
               /\ n.count = count - 1
               /\ n.count >= 0
               /\ n.count > 0 => n.state = "counting"
               /\ n.count = 0
                    => /\ n.state = "running" \/ (n.state = "finished" /\ Text(n) = <<>>)
                       /\ n.startTime = now
                       /\ FreshBots(n)
        /\ (state # "running" /\ state' = "running") => CountdownTick ]_vars

\* the bots of n were given a WPM of the selected profile's range
InProfileRange(n) ==
    \A i \in 1..Len(n.bots) :
       /\ n.bots[i].wpm >= ProfileRange(n.profile)[1]
       /\ n.bots[i].wpm <= ProfileRange(n.profile)[2]

\* the bots keep id, name and WPM
SameBots ==
    /\ Len(bots') = Len(bots)
    /\ \A i \in 1..Len(bots) :
         /\ bots'[i].id = bots[i].id
         /\ bots'[i].name = bots[i].name
         /\ bots'[i].wpm = bots[i].wpm

\* C20: the bots created when the countdown ends have progress 0 and a WPM
\* within the range of the profile; no later step of that race changes a
\* bot's WPM, id or name.
C20_BotsInRangeAndFixed ==
    [][ /\ (state = "counting" /\ state' # "counting" /\ CountdownTick)
          => \A n \in {Cur'} :
               (InProfileRange(n) /\ \A i \in 1..Len(n.bots) : n.bots[i].progress = 0)
        /\ (state = "running" /\ ~startRace /\ ~resetRace) => SameBots ]_vars

-----------------------------------------------------------------------------
(* Accuracy and error count *)

\* word results told apart only by their correct flag, up to three of them
ResultLists ==
    UNION { [1..n -> { [word |-> <<"a">>, typed |-> <<"a">>,
                        correct |-> TRUE, timestamp |-> 1000],
                       [word |-> <<"a">>, typed |-> <<"b">>,
                        correct |-> FALSE, timestamp |-> 1000] }] : n \in 0..3 }

\* a is 100 * k / n rounded to the nearest integer, halves upwards
IsRounded(a, k, n) == 2 * a * n <= 200 * k + n /\ 200 * k + n < 2 * (a + 1) * n

AccuracyOf(wr) ==
    LET c == [wordResults |-> wr]
        k == Cardinality({ i \in 1..Len(wr) : wr[i].correct })
    IN /\ accuracy(c) \in 0..100
       /\ IF Len(wr) = 0 THEN accuracy(c) = 100
          ELSE IsRounded(accuracy(c), k, Len(wr))
       /\ errors(c) = Len(wr) - k

-----------------------------------------------------------------------------
(* Strict mode and the buffer *)

IsPrefix(s, t) == Len(s) <= Len(t) /\ SubSeq(t, 1, Len(s)) = s

\* C27: in strict mode the buffer is always a prefix of the current target
\* word, also after an input event that replaces the whole value: a step
\* of a running strict race that starts with such a buffer ends with one.
C27_StrictBufferIsPrefix ==
    [][ (state = "running" /\ strict /\ IsPrefix(currentTypedWord, TargetWord))
        => \A n \in {Cur'} :
             (n.state = "running" /\ n.strict)
             => IsPrefix(n.currentTypedWord, WordAt(n, n.currentWordIndex)) ]_vars

-----------------------------------------------------------------------------
(* Timestamps *)

\* C29: the timestamps agree with the race state: both absent in idle and
\* counting; the start set and the end absent in running; both set, the end
\* not before the start, in finished.
C29_TimestampsAgreeWithState ==
    /\ state \in {"idle", "counting"} => startTime = NoTime /\ endTime = NoTime
    /\ state = "running" => startTime # NoTime /\ endTime = NoTime
    /\ state = "finished" =>
          startTime # NoTime /\ endTime # NoTime /\ endTime >= startTime

\* a finished race that took time
C29_Witness == state = "finished" /\ startTime # NoTime /\ endTime > startTime

-----------------------------------------------------------------------------
(* The race under a ticker that keeps firing.  The interval of the bot       *)
(* effect fires every 100 ms while the race is running, and React renders    *)
(* after the callbacks it has taken up.  The clock of the model stops at     *)
(* MaxTime, so a race is started only while it leaves the slowest bot the    *)
(* time for the longest passage.                                             *)

\* the least a bot moves in one second: the slowest profile, the least jitter
SlowestStep ==
    LET steps == { ProfileRange(p)[1] * j : p \in Profiles, j \in Jitters }
    IN CHOOSE x \in steps : \A y \in steps : x <= y

RoomToFinish == (MaxTime - now) * SlowestStep >= chunkLen * ProgScale

startRaceInTime == RoomToFinish /\ startRace

\* the steps of BotTick that measure a positive delta, and when one can be
\* taken: the clock advances in no other step
PositiveTick ==
    /\ tickerLive(Cur)
    /\ pending < MaxBatch
    /\ now < MaxTime
    /\ now' = now + 1

\* the steps of Render, and when one can be taken: no other step empties
\* the batch
RenderDue == pending > 0 /\ pending' = 0

NextLive ==
    \/ startRaceInTime
    \/ resetRace
    \/ SetNumBots
    \/ onUpload
    \/ CountdownTick
    \/ BotTick
    \/ Render
    \/ onType

SpecLive ==
    Init /\ [][NextLive]_vars /\ SF_now(PositiveTick) /\ WF_pending(RenderDue)

\* the passage the next state races
PassageChanges == \A n \in {Cur'} : Text(n) # Text(Cur)

\* C30: a running race with a non-empty passage and at least one bot
\* eventually leaves running, whatever the human does, provided the ticker
\* keeps firing with a positive delta; a race without bots is never
\* finished by the ticker: it becomes finished only in a step of the human,
\* typed input or a change of the passage.
C30_BotsEndTheRace ==
    /\ (state = "running" /\ bots # <<>> /\ Text(Cur) # <<>>) ~> (state # "running")
    /\ [][ (state = "running" /\ bots = <<>> /\ state' = "finished")
           => (pending = 0 /\ startTime' = startTime /\ bots' = bots
               /\ (\/ wordResults' # wordResults
                   \/ currentTypedWord' # currentTypedWord
                   \/ PassageChanges)) ]_vars

\* a bot has reached the end while the human has typed nothing
C30_Witness ==
    /\ state = "finished"
    /\ bots # <<>>
    /\ Text(Cur) # <<>>
    /\ wordResults = <<>>
    /\ currentTypedWord = <<>>
    /\ anyBotDone(Cur)

-----------------------------------------------------------------------------
(* Session tracker: the hook.  One step is one callback together with the    *)
(* render that follows; the callbacks of a render close over its             *)
(* currentSession.                                                           *)

\* the callback that resetSessionTimeout hands to setTimeout does not read the
\* state: it keeps the currentSession of the render that created recordRace
recordRace ==
    /\ currentSession.isActive
    /\ Len(currentSession.races) < MaxRaces
    /\ \E raceResult \in RaceResults :
         LET updatedSession ==
                 [currentSession EXCEPT !.races = Append(currentSession.races, raceResult),
                                        !.dirty = TRUE]
             sessionWithStats == calculateSessionStats(updatedSession)
         IN /\ currentSession' = sessionWithStats
            /\ sessionDoc' = saveCurrentSession(sessionWithStats)
    /\ timerPending' = TRUE
    /\ timerSession' = currentSession
    /\ sinceArmed' = 0
    /\ UNCHANGED << historyDoc, raised, nextId, raceVars >>

\* the interval of the persist effect, created by the latest render
persistSession ==
    /\ currentSession.dirty
    /\ LET updatedSession == [currentSession EXCEPT !.dirty = FALSE]
       IN /\ sessionDoc' = saveCurrentSession(updatedSession)
          /\ currentSession' = updatedSession
    /\ UNCHANGED << historyDoc, timerPending, timerSession, sinceArmed, raised,
                    nextId, raceVars >>

\* time passes while a timeout is pending
Wait ==
    /\ timerPending
    /\ sinceArmed < TimeoutTicks
    /\ sinceArmed' = sinceArmed + 1
    /\ UNCHANGED << currentSession, sessionDoc, historyDoc, timerPending,
                    timerSession, raised, nextId, raceVars >>

\* a variant that leaves the ended session in the state
FinalizeKeepsSession(session) ==
    IF endSessionRaises(historyDoc)
    THEN /\ raised' = TRUE
         /\ UNCHANGED << currentSession, sessionDoc, historyDoc, nextId >>
    ELSE /\ historyDoc' = endSession(session, historyDoc)
         /\ sessionDoc' = saveNoCurrentSession
         /\ currentSession' = currentSession
         /\ nextId' = nextId + 1
         /\ raised' = raised

\* endSession(session); setCurrentSession(createNewSession()), or the
\* TypeError of endSession, which leaves everything as it was
Finalize(session) ==
    IF endSessionRaises(historyDoc)
    THEN /\ raised' = TRUE
         /\ UNCHANGED << currentSession, sessionDoc, historyDoc, nextId >>
    ELSE /\ historyDoc' = endSession(session, historyDoc)
         /\ sessionDoc' = saveNoCurrentSession
         /\ currentSession' = createNewSession(nextId)
         /\ nextId' = nextId + 1
         /\ raised' = raised

\* the callback of the 30-minute timeout
SessionTimeout ==
    /\ timerPending
    /\ sinceArmed = TimeoutTicks
    /\ nextId <= MaxSessions
    /\ timerPending' = FALSE
    /\ timerSession' = NoSession
    /\ sinceArmed' = 0
    /\ IF timerSession.isActive
       THEN Finalize(timerSession)
       ELSE UNCHANGED << currentSession, sessionDoc, historyDoc, nextId, raised >>
    /\ UNCHANGED raceVars

\* the timeout is left as it is
endCurrentSession ==
    /\ currentSession.isActive
    /\ nextId <= MaxSessions
    /\ Finalize(currentSession)
    /\ UNCHANGED << timerPending, timerSession, sinceArmed, raceVars >>

\* the page is loaded again: useState(() => loadCurrentSession() || createNewSession())
Mount ==
    /\ nextId <= MaxSessions
    /\ IF HasCurrentSession(sessionDoc)
       THEN currentSession' = loadCurrentSession(sessionDoc) /\ nextId' = nextId
       ELSE currentSession' = createNewSession(nextId) /\ nextId' = nextId + 1
    /\ timerPending' = FALSE
    /\ timerSession' = NoSession
    /\ sinceArmed' = 0
    /\ UNCHANGED << sessionDoc, historyDoc, raised, raceVars >>

\* the tracker mounts on storage that is empty, unreadable or well-formed
InitSession ==
    /\ InitRace
    /\ sessionDoc \in { SessionDoc(k, NoSession) : k \in {"absent", "invalid", "null"} }
    /\ historyDoc \in { HistoryDoc(k, <<>>, 0) : k \in {"absent", "invalid", "history"} }
    /\ currentSession = createNewSession(1)
    /\ timerPending = FALSE
    /\ timerSession = NoSession
    /\ sinceArmed = 0
    /\ raised = FALSE
    /\ nextId = 2

NextSession ==
    \/ recordRace
    \/ persistSession
    \/ Wait
    \/ SessionTimeout
    \/ endCurrentSession
    \/ Mount

SpecSession == InitSession /\ [][NextSession]_vars

\* the tracker mounts on storage of any content
InitStorage ==
    /\ InitRace
    /\ sessionDoc \in { SessionDoc(k, NoSession) :
                           k \in {"absent", "invalid", "null", "noFields"} }
    /\ historyDoc \in { HistoryDoc(k, <<>>, 0) :
                           k \in {"absent", "invalid", "null", "noFields", "history"} }
    /\ currentSession = createNewSession(1)
    /\ timerPending = FALSE
    /\ timerSession = NoSession
    /\ sinceArmed = 0
    /\ raised = FALSE
    /\ nextId = 2

SpecStorage == InitStorage /\ [][NextSession]_vars

-----------------------------------------------------------------------------
(* Session history *)

\* the step writes the session history, that is, it ends a session
EndsSession == historyDoc' # historyDoc

\* C21: the session history holds at most SessionCap summaries (15 in the
\* code), the most recent first: every ending puts the summary of the ended
\* session in front of the stored ones, keeps these in their order, drops
\* exactly the oldest when the cap was reached, and adds one to
\* totalSessions.
C21_HistoryBounded ==
    [][ EndsSession =>
          LET old == loadSessionHistory(historyDoc)
              new == historyDoc'
          IN /\ new.kind = "history"
             /\ Len(new.sessions) = Min(Len(old.sessions) + 1, SessionCap)
             /\ new.sessions[1].id \in {currentSession.sessionId, timerSession.sessionId}
             /\ \A i \in 2..Len(new.sessions) : new.sessions[i] = old.sessions[i - 1]
             /\ new.totalSessions = old.totalSessions + 1 ]_vars

\* more sessions have ended than the history keeps: the oldest is gone
C21_Witness ==
    /\ historyDoc.kind = "history"
    /\ Len(historyDoc.sessions) = SessionCap
    /\ historyDoc.totalSessions = SessionCap + 1
    /\ \A i \in 1..SessionCap : historyDoc.sessions[i].id # 1

-----------------------------------------------------------------------------
(* Session aggregates *)

\* race lists of up to three races, with wpm 0, 10.0, 10.1 and 40.0
RaceLists ==
    UNION { [1..n -> { [wpm |-> w] : w \in {0, 100, 101, 400} }] : n \in 1..3 }

\* a is n / d rounded to the nearest integer, halves upwards (d > 0)
IsRoundedRatio(a, n, d) == 2 * a * d <= 2 * n + d /\ 2 * n + d < 2 * (a + 1) * d

\* the part of the aggregates that needs no rounding
CountsAgree(session) ==
    LET races == session.races
        n == Len(races)
    IN /\ session.totalRaces = n
       /\ \E i \in 1..n : session.peakWPM = races[i].wpm
       /\ \A i \in 1..n : session.peakWPM >= races[i].wpm
       /\ session.consistencyScore \in 0..100
       /\ n = 1 => session.consistencyScore = 100
       /\ Len(session.wpmHistory) = n
       /\ \A i \in 1..n : session.wpmHistory[i] = [race |-> i, wpm |-> races[i].wpm]

\* the average is the mean and the improvement rate the quotient, exactly
AggregatesExact(session) ==
    LET races == session.races
        n == Len(races)
    IN /\ CountsAgree(session)
       /\ session.averageWPM * n = SumWpm(races)
       /\ session.improvementRate * n = races[n].wpm - races[1].wpm

\* the average and the improvement rate are rounded to a tenth
AggregatesRounded(session) ==
    LET races == session.races
        n == Len(races)
    IN /\ CountsAgree(session)
       /\ IsRoundedRatio(session.averageWPM, SumWpm(races), n)
       /\ IsRoundedRatio(session.improvementRate, races[n].wpm - races[1].wpm, n)

\* the step appends a race to the current session
RecordsRace ==
    /\ currentSession'.sessionId = currentSession.sessionId
    /\ Len(currentSession'.races) = Len(currentSession.races) + 1

StatsOf(races) == calculateSessionStats([createNewSession(1) EXCEPT !.races = races])

-----------------------------------------------------------------------------
(* Inactivity timeout *)

\* the step is the callback of the timeout: it ends a session and leaves no
\* timeout pending
TimeoutFires == timerPending /\ ~timerPending' /\ EndsSession

FreshSession(session) ==
    session.isActive /\ session.races = <<>> /\ session.totalRaces = 0

\* C23: every recorded race sets the inactivity timeout anew, so the one
\* pending timeout fires no earlier than a full timeout after the latest
\* race; when it fires, the current session is the one that is summarized at
\* the head of the history, the active-session key is cleared, and a fresh
\* active session without races becomes current.
C23_TimeoutFinalizesCurrent ==
    [][ /\ RecordsRace => (timerPending' /\ sinceArmed' = 0)
        /\ TimeoutFires =>
              /\ sinceArmed = TimeoutTicks
              /\ historyDoc'.sessions[1].id = currentSession.sessionId
              /\ sessionDoc'.kind = "null"
              /\ FreshSession(currentSession')
              /\ currentSession'.sessionId # currentSession.sessionId ]_vars

\* C28: when the current session is finalized, by the timeout or by an
\* explicit end, the summary put into the history counts every race that
\* recordRace has appended to the session, the latest one included.
C28_SummaryCoversAllRaces ==
    [][ (EndsSession /\ historyDoc'.sessions[1].id = currentSession.sessionId)
        => historyDoc'.sessions[1].totalRaces = Len(currentSession.races) ]_vars

-----------------------------------------------------------------------------
(* Finalization and auto-persist *)

FinalizedIds == { historyDoc.sessions[i].id : i \in 1..Len(historyDoc.sessions) }

\* C24: finalization wins over auto-persist: whatever the order of persist
\* ticks, timeouts and explicit ends, the active-session key holds no
\* session that has been finalized.  The key only ever holds the current
\* session, and every finalized session is older than the current one.
C24_FinalizedNeverActive ==
    /\ sessionDoc.kind = "session" =>
          /\ sessionDoc.session.sessionId = currentSession.sessionId
          /\ sessionDoc.session.sessionId \notin FinalizedIds
    /\ \A id \in FinalizedIds : id < currentSession.sessionId

\* a session with races has been finalized, and a later persist tick has
\* written the key, with the session that followed
C24_Witness ==
    /\ Len(historyDoc.sessions) > 0
    /\ historyDoc.sessions[1].totalRaces > 0
    /\ sessionDoc.kind = "session"
    /\ ~sessionDoc.session.dirty
    /\ sessionDoc.session.races # <<>>

-----------------------------------------------------------------------------
(* Storage of any content *)

\* C25: whatever the storage keys hold when the tracker mounts (nothing,
\* text that is not JSON, null, an object without the expected fields),
\* loading the documents and the operations that use them, ending a session
\* among them, complete without an error.
C25_NoOperationRaises == ~raised

====
